---- MODULE Spec2Model ----
(***************************************************************************)
(* Model of the circom container parsers (src/src/circom/file.rs,          *)
(* src/src/circom/reader.rs) and of the folding step driver               *)
(* (src/src/lib.rs).                                                       *)
(*                                                                         *)
(* Byte streams are sequences of tokens [w |-> width in bytes, v |-> value]*)
(* so that offsets and section sizes are counted in real bytes while the   *)
(* integer values stay inside the range the model checker can represent:   *)
(* a u32 is WordBits bits wide, a u64/usize twice that, and the prime      *)
(* field has FieldPrime elements.  All arithmetic that the code performs   *)
(* in a fixed width is performed here modulo that width.                   *)
(***************************************************************************)
EXTENDS Integers, Sequences, FiniteSets, TLC

\* ------------------------------------------------------------------ bounds
WordBits == 8
FieldPrime == 3
HexWidth == 2
MaxSteps == 3

\* ------------------------------------------------------- program constants
FieldSize == 32
WtnsSec1Size == 40
WtnsMaxVersion == 2
WtnsNumSections == 2
R1csVersion == 1
HeaderFixedSize == 32
LabelSize == 8
HeaderType == 1
ConstraintType == 2
Wire2LabelType == 3

WtnsMagic == <<119, 116, 110, 115>>
R1csMagic == <<114, 49, 99, 115>>

RECURSIVE Pow2(_)
Pow2(n) == IF n = 0 THEN 1 ELSE 2 * Pow2(n - 1)

U32Mod == Pow2(WordBits)
U64Mod == U32Mod * U32Mod
UsizeMod == U64Mod

\* 32-byte patterns are numbers: those below FieldPrime are canonical
Fr == 0..(FieldPrime - 1)

VARIABLES overflow_checks, pc, parse, drv, fsys, caller, hist

vars == <<overflow_checks, pc, parse, drv, fsys, caller, hist>>

\* ------------------------------------------------------------ Result<T, E>
Ok(v) == [kind |-> "Ok", val |-> v, err |-> ""]
Err(e) == [kind |-> "Err", val |-> <<>>, err |-> e]
Panic(m) == [kind |-> "Panic", val |-> <<>>, err |-> m]
NoResult == [kind |-> "None", val |-> <<>>, err |-> ""]

\* ------------------------------------------------------------ byte streams
Tok(w, v) == [w |-> w, v |-> v]

RECURSIVE OffsetOf(_, _)
OffsetOf(s, j) == IF j <= 1 THEN 0 ELSE OffsetOf(s, j - 1) + s[j - 1].w

StreamLen(s) == OffsetOf(s, Len(s) + 1)

\* index of the token that starts at byte pos, 0 when none does
RECURSIVE IndexFrom(_, _, _, _)
IndexFrom(s, j, off, pos) ==
  IF j > Len(s) \/ off > pos THEN 0
  ELSE IF off = pos THEN j
  ELSE IndexFrom(s, j + 1, off + s[j].w, pos)

IndexAt(s, pos) == IndexFrom(s, 1, 0, pos)

\* a cursor over a stream: byte position pos, and idx the token starting there
\* (0 when pos is inside a token, Len(s) + 1 at the end of the stream)
Reader(s) == [s |-> s, pos |-> 0, idx |-> 1]

\* read_exact / read_u8 / read_u32 / read_u64 of w bytes at the cursor
Read(r, w) ==
  IF w = 0 THEN [st |-> "ok", v |-> 0, r |-> r]
  ELSE IF r.idx >= 1 /\ r.idx <= Len(r.s) /\ r.s[r.idx].w = w
  THEN [st |-> "ok", v |-> r.s[r.idx].v,
        r |-> [r EXCEPT !.pos = @ + w, !.idx = @ + 1]]
  ELSE IF r.pos + w > StreamLen(r.s)
  THEN [st |-> "eof", v |-> 0, r |-> r]
  ELSE [st |-> "unaligned", v |-> 0, r |-> r]

\* a seek that leaves the cursor where it is
Seek_stay(r, pos) == r

\* Seek::seek(SeekFrom::Start(pos)); a position past the end is allowed
Seek(r, pos) ==
  [r EXCEPT !.pos = pos,
            !.idx = IF pos >= StreamLen(r.s) THEN Len(r.s) + 1
                    ELSE IndexAt(r.s, pos)]

\* ------------------------------------------------- fixed-width arithmetic
\* u32 * u32 and u32 + u32: panic under overflow checks, wrap otherwise
MulU32(a, b) ==
  IF a * b >= U32Mod
  THEN (IF overflow_checks THEN Panic("attempt to multiply with overflow")
        ELSE Ok((a * b) % U32Mod))
  ELSE Ok(a * b)

AddU32(a, b) ==
  IF a + b >= U32Mod
  THEN (IF overflow_checks THEN Panic("attempt to add with overflow")
        ELSE Ok((a + b) % U32Mod))
  ELSE Ok(a + b)

SubUsize(a, b) ==
  IF a < b
  THEN (IF overflow_checks THEN Panic("attempt to subtract with overflow")
        ELSE Ok((a - b) % UsizeMod))
  ELSE Ok(a - b)

\* ------------------------------------------------------ field element codec
\* PrimeField::from_repr: Some for a canonical pattern, None otherwise
from_repr(v) == IF v < FieldPrime THEN Ok(v) ELSE NoResult

ReadFieldPanic == "read_field: called Option::unwrap() on a None value"

\* file.rs 35-43
read_field(r) ==
  LET b == Read(r, FieldSize) IN
  IF b.st # "ok" THEN [res |-> Err(b.st), r |-> r]
  ELSE IF from_repr(b.v).kind = "Ok"
  THEN [res |-> Ok(from_repr(b.v).val), r |-> b.r]
  ELSE [res |-> Panic(ReadFieldPanic), r |-> b.r]

\* ----------------------------------------------------------- witness parser
RECURSIVE ReadWitnessFields(_, _, _)
ReadWitnessFields(r, n, result) ==
  IF n = 0 THEN Ok(result)
  ELSE LET f == read_field(r) IN
       IF f.res.kind # "Ok" THEN f.res
       ELSE ReadWitnessFields(f.r, n - 1, Append(result, f.res.val))

WitnessBody(r, witness_len, field_size) ==
  LET t2 == Read(r, 4) IN
  IF t2.st # "ok" THEN Err(t2.st)
  ELSE IF t2.v # 2 THEN Err("invalid section type")
  ELSE LET sz == Read(t2.r, 8)
           prod == MulU32(witness_len, field_size) IN
       IF sz.st # "ok" THEN Err(sz.st)
       ELSE IF prod.kind = "Panic" THEN prod
       ELSE IF sz.v # prod.val THEN Err("invalid witness section size")
       ELSE ReadWitnessFields(sz.r, witness_len, <<>>)

WitnessSection1(r) ==
  LET t1 == Read(r, 4) IN
  IF t1.st # "ok" THEN Err(t1.st)
  ELSE IF t1.v # 1 THEN Err("invalid section type")
  ELSE LET sz == Read(t1.r, 8) IN
       IF sz.st # "ok" THEN Err(sz.st)
       ELSE IF sz.v # WtnsSec1Size THEN Err("invalid section len")
       ELSE LET fs == Read(sz.r, 4) IN
            IF fs.st # "ok" THEN Err(fs.st)
            ELSE IF fs.v # FieldSize THEN Err("invalid field byte size")
            ELSE LET prime == Read(fs.r, fs.v) IN
                 IF prime.st # "ok" THEN Err(prime.st)
                 ELSE LET wl == Read(prime.r, 4) IN
                      IF wl.st # "ok" THEN Err(wl.st)
                      ELSE WitnessBody(wl.r, wl.v, fs.v)

load_witness_from_bin_reader(stream) ==
  LET m == Read(Reader(stream), 4) IN
  IF m.st # "ok" THEN Err(m.st)
  ELSE IF m.v # WtnsMagic THEN Err("invalid file header")
  ELSE LET ver == Read(m.r, 4) IN
       IF ver.st # "ok" THEN Err(ver.st)
       ELSE IF ver.v > WtnsMaxVersion THEN Err("unsupported file version")
       ELSE LET ns == Read(ver.r, 4) IN
            IF ns.st # "ok" THEN Err(ns.st)
            ELSE IF ns.v # WtnsNumSections THEN Err("invalid num sections")
            ELSE WitnessSection1(ns.r)

load_witness_from_array(buffer) == load_witness_from_bin_reader(buffer)

\* ------------------------------------------------ circuit-definition parser
\* the io::Error of kind InvalidData that read_header builds
InvalidHeaderSize == "Invalid header section size"

\* a size check that accepts every section at least as long as the header
HeaderSizeOk_lax(size, field_size) == size >= HeaderFixedSize + field_size

\* file.rs 49: the declared size against 32 + field_size, in u64
HeaderSizeOk(size, field_size) == size = HeaderFixedSize + field_size

\* file.rs 45-66
read_header(r, size) ==
  LET fs == Read(r, 4) IN
  IF fs.st # "ok" THEN [res |-> Err(fs.st), r |-> r]
  ELSE LET prime == Read(fs.r, fs.v) IN
  IF prime.st # "ok" THEN [res |-> Err(prime.st), r |-> fs.r]
  ELSE IF ~HeaderSizeOk(size, fs.v)
  THEN [res |-> Err(InvalidHeaderSize), r |-> prime.r]
  ELSE LET nw == Read(prime.r, 4)
           npo == Read(nw.r, 4)
           npi == Read(npo.r, 4)
           nprv == Read(npi.r, 4)
           nl == Read(nprv.r, 8)
           nc == Read(nl.r, 4)
           reads == <<nw, npo, npi, nprv, nl, nc>>
           bad == {k \in 1..6 : reads[k].st # "ok"} IN
       IF bad # {}
       THEN [res |-> Err(reads[CHOOSE k \in bad : \A m \in bad : k <= m].st),
             r |-> prime.r]
       ELSE [res |-> Ok([field_size |-> fs.v, prime_size |-> prime.v,
                         n_wires |-> nw.v, n_pub_out |-> npo.v,
                         n_pub_in |-> npi.v, n_prv_in |-> nprv.v,
                         n_labels |-> nl.v, n_constraints |-> nc.v]),
             r |-> nc.r]

RECURSIVE ReadVecEntries(_, _, _)
ReadVecEntries(r, n, vec) ==
  IF n = 0 THEN [res |-> Ok(vec), r |-> r]
  ELSE LET idx == Read(r, 4) IN
       IF idx.st # "ok" THEN [res |-> Err(idx.st), r |-> r]
       ELSE LET f == read_field(idx.r) IN
            IF f.res.kind # "Ok" THEN f
            ELSE ReadVecEntries(f.r, n - 1, Append(vec, <<idx.v, f.res.val>>))

read_constraint_vec(r) ==
  LET n_vec == Read(r, 4) IN
  IF n_vec.st # "ok" THEN [res |-> Err(n_vec.st), r |-> r]
  ELSE ReadVecEntries(n_vec.r, n_vec.v, <<>>)

RECURSIVE ReadConstraintLoop(_, _, _)
ReadConstraintLoop(r, n, vec) ==
  IF n = 0 THEN [res |-> Ok(vec), r |-> r]
  ELSE LET a == read_constraint_vec(r) IN
       IF a.res.kind # "Ok" THEN a
       ELSE LET b == read_constraint_vec(a.r) IN
            IF b.res.kind # "Ok" THEN b
            ELSE LET c == read_constraint_vec(b.r) IN
                 IF c.res.kind # "Ok" THEN c
                 ELSE ReadConstraintLoop(c.r, n - 1,
                        Append(vec, <<a.res.val, b.res.val, c.res.val>>))

read_constraints(r, size, header) ==
  ReadConstraintLoop(r, header.n_constraints, <<>>)

RECURSIVE ReadLabels(_, _, _)
ReadLabels(r, n, vec) ==
  IF n = 0 THEN [res |-> Ok(vec), r |-> r]
  ELSE LET l == Read(r, LabelSize) IN
       IF l.st # "ok" THEN [res |-> Err(l.st), r |-> r]
       ELSE ReadLabels(l.r, n - 1, Append(vec, l.v))

ReadMapPanic == "read_map: index out of bounds: the len is 0 but the index is 0"

read_map(r, size, header) ==
  IF size # header.n_wires * LabelSize
  THEN [res |-> Err("Invalid map section size"), r |-> r]
  ELSE LET ls == ReadLabels(r, header.n_wires, <<>>) IN
       IF ls.res.kind # "Ok" THEN ls
       ELSE IF Len(ls.res.val) = 0
       THEN [res |-> Panic(ReadMapPanic), r |-> ls.r]
       ELSE IF ls.res.val[1] # 0
       THEN [res |-> Err("Wire 0 should always be mapped to 0"), r |-> ls.r]
       ELSE ls

\* HashMap::insert: a later entry of the same key replaces the earlier one
MapInsert(m, k, v) == [x \in (DOMAIN m) \cup {k} |-> IF x = k THEN v ELSE m[x]]
EmptyMap == [x \in {} |-> 0]

\* ------------------------------------------------------ container encoding
\* (the byte layout the parsers are given; spec section 6)
RECURSIVE Concat(_)
Concat(ss) == IF Len(ss) = 0 THEN <<>> ELSE Head(ss) \o Concat(Tail(ss))

EncFields(ws) == [k \in 1..Len(ws) |-> Tok(FieldSize, ws[k])]

EncWtns(version, num_sections, field_size, witness_len, sec2_size, patterns) ==
  <<Tok(4, WtnsMagic), Tok(4, version), Tok(4, num_sections),
    Tok(4, 1), Tok(8, WtnsSec1Size), Tok(4, field_size),
    Tok(FieldSize, FieldPrime), Tok(4, witness_len),
    Tok(4, 2), Tok(8, sec2_size)>> \o EncFields(patterns)

\* a well-formed witness container holding the vector w
EncodeWitness(w) ==
  EncWtns(WtnsMaxVersion, WtnsNumSections, FieldSize, Len(w),
          Len(w) * FieldSize, w)

EncHeader(h) ==
  <<Tok(4, h.field_size)>>
  \o (IF h.field_size = 0 THEN <<>> ELSE <<Tok(h.field_size, FieldPrime)>>)
  \o <<Tok(4, h.n_wires), Tok(4, h.n_pub_out), Tok(4, h.n_pub_in),
       Tok(4, h.n_prv_in), Tok(8, h.n_labels), Tok(4, h.n_constraints)>>

EncVec(v) ==
  <<Tok(4, Len(v))>>
  \o Concat([k \in 1..Len(v) |-> <<Tok(4, v[k][1]), Tok(FieldSize, v[k][2])>>])

EncConstraints(cs) ==
  Concat([k \in 1..Len(cs) |-> EncVec(cs[k][1]) \o EncVec(cs[k][2]) \o EncVec(cs[k][3])])

EncMap(labels) == [k \in 1..Len(labels) |-> Tok(LabelSize, labels[k])]

\* one section: its (type, size) header, its body, and pad bytes that the
\* declared size covers beyond the body
EncSection(type, body, pad) ==
  <<Tok(4, type), Tok(8, StreamLen(body) + pad)>> \o body
  \o (IF pad = 0 THEN <<>> ELSE <<Tok(pad, 0)>>)

SectionBody(type, h, cs, labels) ==
  IF type = HeaderType THEN EncHeader(h)
  ELSE IF type = ConstraintType THEN EncConstraints(cs)
  ELSE EncMap(labels)

EncR1cs(magic, version, num_sections, order, h, hpad, cs, labels) ==
  <<Tok(4, magic), Tok(4, version), Tok(4, num_sections)>>
  \o Concat([k \in 1..Len(order) |->
       EncSection(order[k], SectionBody(order[k], h, cs, labels),
                  IF order[k] = HeaderType THEN hpad ELSE 0)])

\* ------------------------------------------------------------ text formats
HexChars == <<"0", "1", "2", "3", "4", "5", "6", "7", "8", "9",
              "a", "b", "c", "d", "e", "f">>

DigitVal(c) == (CHOOSE k \in 1..16 : HexChars[k] = c) - 1

RECURSIVE Pow(_, _)
Pow(b, n) == IF n = 0 THEN 1 ELSE b * Pow(b, n - 1)

\* the Debug form of a field element: "0x" and its big-endian hex digits
FmtDebug(x) ==
  <<"0", "x">> \o [k \in 1..HexWidth |-> HexChars[((x \div Pow(16, HexWidth - k)) % 16) + 1]]

\* str::strip_prefix("0x").unwrap()
StripPrefix0x(str) ==
  IF Len(str) >= 2 /\ str[1] = "0" /\ str[2] = "x"
  THEN Ok(SubSeq(str, 3, Len(str)))
  ELSE Panic("called Option::unwrap() on a None value")

\* lib.rs 106-109, 146-149, 180-183: field elements to hex strings
ToHexStrings(z) == [k \in 1..Len(z) |-> StripPrefix0x(FmtDebug(z[k])).val]

\* BigInt::from_str_radix(x, radix).unwrap() of a digit string
RECURSIVE from_str_radix(_, _)
from_str_radix(str, radix) ==
  IF Len(str) = 0 THEN 0
  ELSE from_str_radix(SubSeq(str, 1, Len(str) - 1), radix) * radix
       + DigitVal(str[Len(str)])

\* BigInt::to_str_radix
RECURSIVE to_str_radix(_, _)
to_str_radix(n, radix) ==
  IF n < radix THEN <<HexChars[n + 1]>>
  ELSE Append(to_str_radix(n \div radix, radix), HexChars[(n % radix) + 1])

\* ------------------------------------------------- external collaborators
\* the step circuit the driver folds: one public output, one public input
StepR1cs == [num_aux |-> 1, num_inputs |-> 3, num_variables |-> 4,
             constraints |-> <<>>]

PubLen == (StepR1cs.num_inputs - 1) \div 2

FrVecs == [1..PubLen -> Fr]
\* the private input (the toy circuit's adder) of one step
PrivVals == {0, 1}

\* what the step circuit computes from its public input and private input
StepFn(z, private_input) == [k \in 1..Len(z) |-> (z[k] + private_input + 1) % FieldPrime]

\* the witness an honest generator computes for an interchange document:
\* wire 0 is the constant one, then the outputs, the inputs, the private wire
HonestWitness(input_json) ==
  LET z == [k \in 1..Len(input_json.step_in) |->
              from_str_radix(input_json.step_in[k], 10) % FieldPrime] IN
  <<1 % FieldPrime>> \o StepFn(z, input_json.extra) \o z
  \o <<input_json.extra % FieldPrime>>

NoFile == <<>>
GeneratorOutcomes == {"write", "nowrite", "noncanonical", "malformed", "spawn_fail"}

\* the witness file after the generator process has exited
RunGenerator(input_json, outcome, wtns) ==
  LET w == HonestWitness(input_json) IN
  IF outcome = "write" THEN EncodeWitness(w)
  ELSE IF outcome = "noncanonical"
  THEN EncodeWitness([w EXCEPT ![Len(w)] = FieldPrime])
  ELSE IF outcome = "malformed"
  THEN EncWtns(WtnsMaxVersion, WtnsNumSections, FieldSize, Len(w), 0, w)
  ELSE wtns

\* CircomCircuit::get_public_outputs: the designated output wires 1..PubLen
get_public_outputs(circuit) ==
  IF Len(circuit.witness) < circuit.r1cs.num_inputs
  THEN Panic("index out of bounds")
  ELSE Ok(SubSeq(circuit.witness, 2, 1 + (circuit.r1cs.num_inputs - 1) \div 2))

\* the folding collaborator's accumulator: its seed and the circuits folded
NoSnark == [z0 |-> <<>>, seed |-> <<>>, folded |-> <<>>, live |-> FALSE]

RecursiveSNARK_new(circuit_0, z0) ==
  [z0 |-> z0, seed |-> circuit_0.witness, folded |-> <<>>, live |-> TRUE]

prove_step(snark, circuit) ==
  [snark EXCEPT !.folded = Append(@, circuit.witness)]

verify(snark, num_steps, z0) ==
  snark.live /\ num_steps > 0 /\ Len(snark.folded) = num_steps /\ snark.z0 = z0

\* ------------------------------------------------------- witness generation
\* reader.rs 40-52: open the file, parse it, expect
load_witness_from_file(wtns) ==
  IF wtns = NoFile THEN Panic("unable to open.")
  ELSE LET r == load_witness_from_bin_reader(wtns) IN
       IF r.kind = "Err" THEN Panic("read witness failed") ELSE r

\* reader.rs 17-37: write the document, run the generator, drop the document,
\* load whatever is at the output path
generate_witness_from_bin(input_json, outcome, fs) ==
  IF outcome = "spawn_fail"
  THEN [res |-> Panic("failed to execute process"),
        fs |-> [fs EXCEPT !.json = TRUE]]
  ELSE LET wtns == RunGenerator(input_json, outcome, fs.wtns) IN
       [res |-> load_witness_from_file(wtns),
        fs |-> [wtns |-> wtns, json |-> FALSE]]

\* lib.rs 66-76: the interchange document
CircomInput(current_public_input, private_input) ==
  [step_in |-> [k \in 1..Len(current_public_input) |->
                  to_str_radix(from_str_radix(current_public_input[k], 16), 10)],
   extra |-> private_input]

\* lib.rs 56-88
compute_witness(current_public_input, private_input, outcome, fs) ==
  generate_witness_from_bin(CircomInput(current_public_input, private_input),
                            outcome, fs)

\* ------------------------------------------------------------- input sets
WitnessLens == {0, 1, 2, U32Mod \div FieldSize}

\* n patterns, canonical except (when lastbad) the last one
Patterns(n, lastbad) ==
  [k \in 1..n |-> IF k = n /\ lastbad THEN FieldPrime ELSE k % FieldPrime]

SectionOrders ==
  { <<1, 2, 3>>, <<3, 2, 1>>, <<2, 3, 1>>, <<1, 2>>, <<1, 3>>, <<2, 3>>, <<>>,
    <<1, 2, 3, 1>> }

Constraint1 == << <<<<1, 1>>, <<2, 2>>>>, <<<<0, 1>>>>, <<>> >>
Constraint2 == << <<>>, <<<<2, 0>>>>, <<<<1, 2>>>> >>
ConstraintBad == << <<<<1, FieldPrime>>>>, <<>>, <<>> >>

ConstraintBodies ==
  { <<>>, <<Constraint1>>, <<Constraint1, Constraint2>>, <<ConstraintBad>> }

LabelBodies == { <<>>, <<0>>, <<0, 3>>, <<3, 0>> }

HeaderOf(field_size, n_wires, n_pub_out, n_pub_in, n_constraints) ==
  [field_size |-> field_size, n_wires |-> n_wires, n_pub_out |-> n_pub_out,
   n_pub_in |-> n_pub_in, n_prv_in |-> 1, n_labels |-> 5,
   n_constraints |-> n_constraints]

\* containers whose three bodies agree with their header
WellFormedBody(h, hpad, cs, ls) ==
  /\ h.field_size = FieldSize /\ hpad = 0
  /\ h.n_constraints = Len(cs) /\ cs # <<ConstraintBad>>
  /\ h.n_wires = Len(ls) /\ Len(ls) > 0 /\ ls[1] = 0
  /\ h.n_pub_in <= 1

\* the containers handed to the parser: every section layout around a
\* well-formed body, and every body in the canonical layout
R1csCase(num_sections, order, h, hpad, cs, ls) ==
  /\ num_sections \in {0, Len(order), 4}
  /\ h.n_constraints <= Len(cs)
  /\ \/ WellFormedBody(h, hpad, cs, ls) /\ h.n_pub_out = 1
     \/ /\ order = <<1, 2, 3>> /\ num_sections = 3
        /\ h.n_pub_out = 1 \/ h.n_pub_in = 0
        /\ h.n_constraints = Len(cs) \/ Len(cs) = 2

\* ---------------------------------------------------------------- the state
NoHeader == [field_size |-> 0, prime_size |-> 0, n_wires |-> 0, n_pub_out |-> 0,
             n_pub_in |-> 0, n_prv_in |-> 0, n_labels |-> 0, n_constraints |-> 0]

\* what the container handed to from_reader was encoded from
NoGiven == [magic |-> 0, version |-> 0, num_sections |-> 0, order |-> <<>>, h |-> NoHeader, hpad |-> 0,
            cs |-> <<>>, ls |-> <<>>]

ParseInit ==
  [api |-> "none", given |-> NoGiven, reader |-> Reader(<<>>), num_sections |-> 0, scanned |-> 0,
   section_offsets |-> EmptyMap, section_sizes |-> EmptyMap,
   header |-> NoHeader, constraints |-> <<>>, wire_mapping |-> <<>>,
   at |-> "none", fr_result |-> NoResult, result |-> NoResult]

DrvInit ==
  [entry |-> "none", private_inputs |-> <<>>, start_public_input |-> <<>>,
   iteration_count |-> 0, current_public_input |-> <<>>, i |-> 0,
   witness |-> <<>>, recursive_snark |-> NoSnark, result |-> NoResult]

\* observation of the run in progress: generator invocations, outputs derived,
\* accumulator operations; done keeps the record of each run that returned
RunLog == [gen |-> <<>>, outs |-> <<>>, folds |-> <<>>, news |-> 0, honest |-> TRUE]
HistInit == [run |-> RunLog, done |-> <<>>, silent |-> FALSE]

\* the generator outcomes still possible: it exits without writing at most
\* once in a behaviour
Outcomes == IF hist.silent THEN GeneratorOutcomes \ {"nowrite"}
            ELSE GeneratorOutcomes

Init ==
  /\ overflow_checks \in BOOLEAN
  /\ pc = "idle"
  /\ parse = ParseInit
  /\ drv = DrvInit
  /\ fsys = [wtns |-> NoFile, json |-> FALSE]
  /\ caller = [phase |-> 0, private_inputs |-> <<>>, start_public_input |-> <<>>,
               split |-> 0, last_zi |-> <<>>, snark |-> NoSnark]
  /\ hist = HistInit

\* from_reader has returned res (or panicked with it)
FrReturn(p, res) ==
  /\ parse' = [p EXCEPT !.fr_result = res]
  /\ pc' = IF res.kind = "Panic" THEN "panicked" ELSE "fr_returned"

\* file.rs 125-141: magic, version, section count
FromReaderStart(api, stream, given) ==
  /\ pc = "idle"
  /\ LET p0 == [ParseInit EXCEPT !.api = api, !.reader = Reader(stream),
                                 !.given = given,
                                 !.at = "start"]
         magic == Read(p0.reader, 4)
         version == Read(magic.r, 4)
         num_sections == Read(version.r, 4) IN
     IF magic.st # "ok" THEN FrReturn(p0, Err(magic.st))
     ELSE IF magic.v # R1csMagic THEN FrReturn(p0, Err("Invalid magic number"))
     ELSE IF version.st # "ok" THEN FrReturn(p0, Err(version.st))
     ELSE IF version.v # R1csVersion THEN FrReturn(p0, Err("Unsupported version"))
     ELSE IF num_sections.st # "ok" THEN FrReturn(p0, Err(num_sections.st))
     ELSE /\ parse' = [p0 EXCEPT !.reader = num_sections.r,
                                 !.num_sections = num_sections.v]
          /\ pc' = IF num_sections.v = 0 THEN "fr_header" ELSE "fr_scan"
  /\ UNCHANGED <<overflow_checks, drv, fsys, caller, hist>>

\* file.rs 144-151: one iteration of the section scan
FromReaderScan ==
  /\ pc = "fr_scan"
  /\ LET section_type == Read(parse.reader, 4)
         section_size == Read(section_type.r, 8)
         offset == section_size.r.pos IN
     IF section_type.st # "ok"
     THEN FrReturn([parse EXCEPT !.at = "scan"], Err(section_type.st))
     ELSE IF section_size.st # "ok"
     THEN FrReturn([parse EXCEPT !.at = "scan"], Err(section_size.st))
     ELSE /\ parse' = [parse EXCEPT
                 !.at = "scan",
                 !.section_offsets = MapInsert(@, section_type.v, offset),
                 !.section_sizes = MapInsert(@, section_type.v, section_size.v),
                 !.reader = Seek(section_size.r, offset + section_size.v),
                 !.scanned = @ + 1]
          /\ pc' = IF parse.scanned + 1 = parse.num_sections
                   THEN "fr_header" ELSE "fr_scan"
  /\ UNCHANGED <<overflow_checks, drv, fsys, caller, hist>>

SectionPanic == "from_reader: called Option::unwrap() on a None value"

\* HashMap::get(..).unwrap() of a section type
SectionLookup(m, type) ==
  IF type \in DOMAIN m THEN Ok(m[type])
  ELSE Panic(SectionPanic)

\* file.rs 157-164
FromReaderHeader ==
  /\ pc = "fr_header"
  /\ LET off == SectionLookup(parse.section_offsets, HeaderType) IN
     IF off.kind # "Ok" THEN FrReturn([parse EXCEPT !.at = "header"], off)
     ELSE LET h == read_header(Seek(parse.reader, off.val),
                               parse.section_sizes[HeaderType]) IN
          IF h.res.kind # "Ok"
          THEN FrReturn([parse EXCEPT !.reader = h.r, !.at = "header"], h.res)
          ELSE IF h.res.val.field_size # FieldSize
          THEN FrReturn([parse EXCEPT !.reader = h.r, !.at = "header"],
                        Err("This parser only supports 32-byte fields"))
          ELSE /\ parse' = [parse EXCEPT !.reader = h.r, !.header = h.res.val,
                                         !.at = "header"]
               /\ pc' = "fr_constraints"
  /\ UNCHANGED <<overflow_checks, drv, fsys, caller, hist>>

\* file.rs 175-182
FromReaderConstraints ==
  /\ pc = "fr_constraints"
  /\ LET off == SectionLookup(parse.section_offsets, ConstraintType) IN
     IF off.kind # "Ok" THEN FrReturn([parse EXCEPT !.at = "constraints"], off)
     ELSE LET c == read_constraints(Seek(parse.reader, off.val),
                                    parse.section_sizes[ConstraintType],
                                    parse.header) IN
          IF c.res.kind # "Ok"
          THEN FrReturn([parse EXCEPT !.reader = c.r, !.at = "constraints"], c.res)
          ELSE /\ parse' = [parse EXCEPT !.reader = c.r, !.constraints = c.res.val,
                                         !.at = "constraints"]
               /\ pc' = "fr_map"
  /\ UNCHANGED <<overflow_checks, drv, fsys, caller, hist>>

\* file.rs 184-198
FromReaderMap ==
  /\ pc = "fr_map"
  /\ LET off == SectionLookup(parse.section_offsets, Wire2LabelType) IN
     IF off.kind # "Ok" THEN FrReturn([parse EXCEPT !.at = "map"], off)
     ELSE LET m == read_map(Seek(parse.reader, off.val),
                            parse.section_sizes[Wire2LabelType],
                            parse.header) IN
          IF m.res.kind # "Ok"
          THEN FrReturn([parse EXCEPT !.reader = m.r, !.at = "map"], m.res)
          ELSE FrReturn([parse EXCEPT !.reader = m.r, !.wire_mapping = m.res.val,
                                      !.at = "map"],
                        Ok([version |-> R1csVersion, header |-> parse.header,
                            constraints |-> parse.constraints,
                            wire_mapping |-> m.res.val]))
  /\ UNCHANGED <<overflow_checks, drv, fsys, caller, hist>>

\* reader.rs 145-154: expect, then the counts of the circuit definition
R1csOf(file) ==
  LET s1 == AddU32(1, file.header.n_pub_in)
      num_inputs == IF s1.kind = "Ok" THEN AddU32(s1.val, file.header.n_pub_out) ELSE s1
      num_variables == file.header.n_wires
      num_aux == IF num_inputs.kind = "Ok"
                 THEN SubUsize(num_variables, num_inputs.val) ELSE num_inputs IN
  IF num_aux.kind # "Ok" THEN num_aux
  ELSE Ok([num_aux |-> num_aux.val, num_inputs |-> num_inputs.val,
           num_variables |-> num_variables, constraints |-> file.constraints])

load_r1cs_from_bin ==
  /\ pc = "fr_returned"
  /\ parse.api = "load_r1cs_from_bin"
  /\ LET res == IF parse.fr_result.kind = "Err" THEN Panic("unable to read.")
                ELSE R1csOf(parse.fr_result.val) IN
     /\ parse' = [parse EXCEPT !.result = res]
     /\ pc' = IF res.kind = "Panic" THEN "panicked" ELSE "returned"
  /\ UNCHANGED <<overflow_checks, drv, fsys, caller, hist>>

\* reader.rs 55-57
LoadWitnessFromArray(buffer) ==
  /\ pc = "idle"
  /\ LET res == load_witness_from_array(buffer) IN
     /\ parse' = [ParseInit EXCEPT !.api = "load_witness_from_array",
                                   !.reader = Reader(buffer), !.result = res]
     /\ pc' = IF res.kind = "Panic" THEN "panicked" ELSE "returned"
  /\ UNCHANGED <<overflow_checks, drv, fsys, caller, hist>>

\* ------------------------------------------------------------ step driver
LogGen(h, step, input_json, outcome) ==
  [h EXCEPT !.run.gen = Append(@, [step |-> step, step_in |-> input_json.step_in,
                                   extra |-> input_json.extra,
                                   wrote |-> outcome \notin {"nowrite", "spawn_fail"}]),
            !.run.honest = @ /\ outcome = "write",
            !.silent = @ \/ outcome = "nowrite"]

\* the run returned res to its caller; snark is the accumulator the caller holds
DriverReturn(res, snark) ==
  /\ pc' = "between"
  /\ drv' = [drv EXCEPT !.result = res]
  /\ caller' = [caller EXCEPT !.phase = @ + 1, !.snark = snark]
  /\ hist' = [hist EXCEPT !.done = Append(@,
                 [entry |-> drv.entry, n |-> drv.iteration_count,
                  log |-> hist.run, kind |-> res.kind, snark |-> snark])]

\* a loop that stops one step short
InRange_short(i, iteration_count) == i < iteration_count - 1

\* lib.rs 132, 188: the loop range 0..iteration_count
InRange(i, iteration_count) == i < iteration_count

\* lib.rs 106-110: a fresh run starts the chain at the initial public input
CreateSeed(start_public_input) == ToHexStrings(start_public_input)

\* a continuation that starts the chain at its start_public_input
ContinueSeed_start(last_zi, start_public_input) == ToHexStrings(start_public_input)

\* lib.rs 180-183: a continuation starts the chain at last_zi
ContinueSeed(last_zi, start_public_input) == ToHexStrings(last_zi)

\* lib.rs 101-110
create_recursive_circuit(private_inputs, start_public_input) ==
  /\ drv' = [DrvInit EXCEPT !.entry = "create",
               !.private_inputs = private_inputs,
               !.start_public_input = start_public_input,
               !.iteration_count = Len(private_inputs),
               !.current_public_input = CreateSeed(start_public_input)]
  /\ hist' = [hist EXCEPT !.run = RunLog]
  /\ pc' = "create_witness_0"
  /\ UNCHANGED <<overflow_checks, parse, fsys>>

\* lib.rs 112-122
CreateWitness0 ==
  /\ pc = "create_witness_0"
  /\ \E outcome \in Outcomes :
       IF drv.iteration_count = 0
       THEN /\ outcome = "write"
            /\ drv' = [drv EXCEPT !.result = Panic("index out of bounds")]
            /\ pc' = "panicked"
            /\ UNCHANGED <<fsys, hist>>
       ELSE LET cw == compute_witness(drv.current_public_input,
                                      drv.private_inputs[1], outcome, fsys) IN
            /\ fsys' = cw.fs
            /\ hist' = LogGen(hist, -1,
                              CircomInput(drv.current_public_input,
                                          drv.private_inputs[1]), outcome)
            /\ drv' = IF cw.res.kind = "Ok"
                      THEN [drv EXCEPT !.witness = cw.res.val]
                      ELSE [drv EXCEPT !.result = cw.res]
            /\ pc' = IF cw.res.kind = "Ok" THEN "create_new" ELSE "panicked"
  /\ UNCHANGED <<overflow_checks, parse, caller>>

\* lib.rs 126-130
CreateNew ==
  /\ pc = "create_new"
  /\ \E ok \in BOOLEAN :
       IF ok
       THEN /\ drv' = [drv EXCEPT !.recursive_snark =
                         RecursiveSNARK_new([r1cs |-> StepR1cs, witness |-> drv.witness],
                                            drv.start_public_input)]
            /\ hist' = [hist EXCEPT !.run.news = @ + 1]
            /\ pc' = IF InRange(0, drv.iteration_count) THEN "create_step_witness"
                     ELSE "create_finish"
            /\ UNCHANGED caller
       ELSE DriverReturn(Err("RecursiveSNARK::new"), caller.snark)
  /\ UNCHANGED <<overflow_checks, parse, fsys>>

\* lib.rs 133-143
CreateStepWitness ==
  /\ pc = "create_step_witness"
  /\ \E outcome \in Outcomes :
       LET cw == compute_witness(drv.current_public_input,
                                 drv.private_inputs[drv.i + 1], outcome, fsys) IN
       /\ fsys' = cw.fs
       /\ hist' = LogGen(hist, drv.i,
                         CircomInput(drv.current_public_input,
                                     drv.private_inputs[drv.i + 1]), outcome)
       /\ drv' = IF cw.res.kind = "Ok"
                 THEN [drv EXCEPT !.witness = cw.res.val]
                 ELSE [drv EXCEPT !.result = cw.res]
       /\ pc' = IF cw.res.kind = "Ok" THEN "create_step_prove" ELSE "panicked"
  /\ UNCHANGED <<overflow_checks, parse, caller>>

\* the next public input taken from the step's public input wires
NextPublicInput_inputs(circuit) ==
  ToHexStrings(SubSeq(circuit.witness, 2 + PubLen, 1 + 2 * PubLen))

\* lib.rs 145-149, 201-205: the next public input, from the step's outputs
NextPublicInput(circuit) == ToHexStrings(get_public_outputs(circuit).val)

\* lib.rs 145-156
CreateStepProve ==
  /\ pc = "create_step_prove"
  /\ \E ok \in BOOLEAN :
       LET circuit == [r1cs |-> StepR1cs, witness |-> drv.witness]
           current_public_output == get_public_outputs(circuit) IN
       IF current_public_output.kind # "Ok"
       THEN /\ ok
            /\ drv' = [drv EXCEPT !.result = current_public_output]
            /\ pc' = "panicked"
            /\ UNCHANGED hist
       ELSE /\ hist' = [hist EXCEPT
                  !.run.outs = Append(@, current_public_output.val),
                  !.run.folds = IF ok THEN Append(@, [step |-> drv.i,
                                                      witness |-> drv.witness])
                                ELSE @]
            /\ drv' = IF ok
                      THEN [drv EXCEPT
                              !.current_public_input = NextPublicInput(circuit),
                              !.recursive_snark = prove_step(@, circuit),
                              !.i = @ + 1]
                      ELSE [drv EXCEPT
                              !.current_public_input = NextPublicInput(circuit),
                              !.result = Panic("assertion failed: res.is_ok()")]
            /\ pc' = IF ~ok THEN "panicked"
                     ELSE IF InRange(drv.i + 1, drv.iteration_count)
                     THEN "create_step_witness" ELSE "create_finish"
  /\ UNCHANGED <<overflow_checks, parse, fsys, caller>>

\* lib.rs 157-159
CreateFinish ==
  /\ pc = "create_finish"
  /\ IF fsys.wtns = NoFile
     THEN DriverReturn(Err("remove_file: NotFound"), caller.snark) /\ UNCHANGED fsys
     ELSE /\ fsys' = [fsys EXCEPT !.wtns = NoFile]
          /\ DriverReturn(Ok(<<>>), drv.recursive_snark)
  /\ UNCHANGED <<overflow_checks, parse>>

\* lib.rs 175-186
continue_recursive_circuit(last_zi, private_inputs, start_public_input) ==
  /\ drv' = [DrvInit EXCEPT !.entry = "continue",
               !.private_inputs = private_inputs,
               !.start_public_input = start_public_input,
               !.iteration_count = Len(private_inputs),
               !.current_public_input = ContinueSeed(last_zi, start_public_input)]
  /\ hist' = [hist EXCEPT !.run = RunLog]
  /\ pc' = IF InRange(0, Len(private_inputs)) THEN "continue_step_witness"
           ELSE "continue_finish"
  /\ UNCHANGED <<overflow_checks, parse, fsys>>

\* lib.rs 189-199
ContinueStepWitness ==
  /\ pc = "continue_step_witness"
  /\ \E outcome \in Outcomes :
       LET cw == compute_witness(drv.current_public_input,
                                 drv.private_inputs[drv.i + 1], outcome, fsys) IN
       /\ fsys' = cw.fs
       /\ hist' = LogGen(hist, drv.i,
                         CircomInput(drv.current_public_input,
                                     drv.private_inputs[drv.i + 1]), outcome)
       /\ drv' = IF cw.res.kind = "Ok"
                 THEN [drv EXCEPT !.witness = cw.res.val]
                 ELSE [drv EXCEPT !.result = cw.res]
       /\ pc' = IF cw.res.kind = "Ok" THEN "continue_step_prove" ELSE "panicked"
  /\ UNCHANGED <<overflow_checks, parse, caller>>

\* lib.rs 201-212: the accumulator is the caller's, mutated in place
ContinueStepProve ==
  /\ pc = "continue_step_prove"
  /\ \E ok \in BOOLEAN :
       LET circuit == [r1cs |-> StepR1cs, witness |-> drv.witness]
           current_public_output == get_public_outputs(circuit) IN
       IF current_public_output.kind # "Ok"
       THEN /\ ok
            /\ drv' = [drv EXCEPT !.result = current_public_output]
            /\ pc' = "panicked"
            /\ UNCHANGED <<hist, caller>>
       ELSE /\ hist' = [hist EXCEPT
                  !.run.outs = Append(@, current_public_output.val),
                  !.run.folds = IF ok THEN Append(@, [step |-> drv.i,
                                                      witness |-> drv.witness])
                                ELSE @]
            /\ caller' = IF ok
                         THEN [caller EXCEPT !.snark = prove_step(@, circuit)]
                         ELSE caller
            /\ drv' = IF ok
                      THEN [drv EXCEPT
                              !.current_public_input = NextPublicInput(circuit),
                              !.i = @ + 1]
                      ELSE [drv EXCEPT
                              !.current_public_input = NextPublicInput(circuit),
                              !.result = Panic("assertion failed: res.is_ok()")]
            /\ pc' = IF ~ok THEN "panicked"
                     ELSE IF InRange(drv.i + 1, drv.iteration_count)
                     THEN "continue_step_witness" ELSE "continue_finish"
  /\ UNCHANGED <<overflow_checks, parse, fsys>>

\* lib.rs 214-216
ContinueFinish ==
  /\ pc = "continue_finish"
  /\ IF fsys.wtns = NoFile
     THEN DriverReturn(Err("remove_file: NotFound"), caller.snark) /\ UNCHANGED fsys
     ELSE /\ fsys' = [fsys EXCEPT !.wtns = NoFile]
          /\ DriverReturn(Ok(<<>>), caller.snark)
  /\ UNCHANGED <<overflow_checks, parse>>

\* ------------------------------------------------------------- the caller
\* examples/toy_pasta.rs 27-65: a fresh run over all the private inputs
CallCreateAll ==
  /\ pc = "idle"
  /\ \E n \in 0..MaxSteps :
       \E private_inputs \in [1..n -> PrivVals], z0 \in FrVecs :
         /\ caller' = [caller EXCEPT !.private_inputs = private_inputs,
                                     !.start_public_input = z0]
         /\ create_recursive_circuit(private_inputs, z0)

\* a fresh run over the first split private inputs
CallCreatePrefix ==
  /\ pc = "between"
  /\ caller.phase = 1
  /\ \E split \in 1..Len(caller.private_inputs) :
       /\ caller' = [caller EXCEPT !.split = split]
       /\ create_recursive_circuit(SubSeq(caller.private_inputs, 1, split),
                                   caller.start_public_input)

\* examples/toy_pasta.rs 72: the public output verify reports for the
\* accumulator, that of the last circuit folded
LastOutputs(snark) ==
  get_public_outputs([r1cs |-> StepR1cs,
                      witness |-> snark.folded[Len(snark.folded)]]).val

\* the continuation over the remaining private inputs, seeded with the
\* accumulator's last public output or, mistakenly, with the initial input
CallContinue ==
  /\ pc = "between"
  /\ caller.phase = 2
  /\ caller.snark.live
  /\ \E last_zi \in {LastOutputs(caller.snark), caller.start_public_input} :
     \E start_public_input \in {caller.start_public_input, last_zi} :
       /\ caller' = [caller EXCEPT !.last_zi = last_zi]
       /\ continue_recursive_circuit(last_zi,
            SubSeq(caller.private_inputs, caller.split + 1,
                   Len(caller.private_inputs)),
            start_public_input)

\* the caller hands a circuit-definition container to load_r1cs_from_bin
CallLoadR1cs ==
  /\ pc = "idle"
  /\ \E num_sections \in 0..4, order \in SectionOrders,
        fh \in {<<FieldSize, 0>>, <<FieldSize, 8>>, <<FieldSize - 1, 0>>},
        n_wires \in 0..2, n_pub_out \in {0, 1}, n_pub_in \in {0, 1, U32Mod - 1},
        n_constraints \in 0..2, cs \in ConstraintBodies, ls \in LabelBodies :
        LET h == HeaderOf(fh[1], n_wires, n_pub_out, n_pub_in, n_constraints) IN
        /\ R1csCase(num_sections, order, h, fh[2], cs, ls)
        /\ FromReaderStart("load_r1cs_from_bin",
             EncR1cs(R1csMagic, R1csVersion, num_sections, order, h, fh[2], cs, ls),
             [magic |-> R1csMagic, version |-> R1csVersion,
              num_sections |-> num_sections, order |-> order, h |-> h,
              hpad |-> fh[2], cs |-> cs, ls |-> ls])

CallLoadR1csBadPrefix ==
  /\ pc = "idle"
  /\ \E pre \in {<<WtnsMagic, R1csVersion>>, <<R1csMagic, R1csVersion + 1>>} :
        FromReaderStart("load_r1cs_from_bin",
          EncR1cs(pre[1], pre[2], 3, <<1, 2, 3>>, HeaderOf(FieldSize, 1, 0, 0, 0),
                  0, <<>>, <<0>>),
          [magic |-> pre[1], version |-> pre[2],
           num_sections |-> 3, order |-> <<1, 2, 3>>,
           h |-> HeaderOf(FieldSize, 1, 0, 0, 0), hpad |-> 0,
           cs |-> <<>>, ls |-> <<0>>])

CallLoadWitness ==
  /\ pc = "idle"
  /\ \E ver \in {WtnsMaxVersion, WtnsMaxVersion + 1}, ns \in {WtnsNumSections, 1},
        fs \in {FieldSize, FieldSize - 1}, wl \in WitnessLens,
        sz \in {0, FieldSize, 2 * FieldSize, U32Mod},
        n \in WitnessLens, lastbad \in BOOLEAN :
        LoadWitnessFromArray(EncWtns(ver, ns, fs, wl, sz, Patterns(n, lastbad)))

\* file.rs 291-300: read_header handed a buffer and a declared size; the
\* buffer holds the first keep units of a header's bytes
CallReadHeader ==
  /\ pc = "idle"
  /\ \E field_size \in {0, FieldSize - 1, FieldSize, 2 * FieldSize},
        keep \in 0..8, n_wires \in {0, 1}, n_constraints \in {0, 1},
        size \in {0, HeaderFixedSize, HeaderFixedSize + FieldSize - 1,
                  HeaderFixedSize + FieldSize, HeaderFixedSize + FieldSize + 8,
                  HeaderFixedSize + 2 * FieldSize} :
        LET h == HeaderOf(field_size, n_wires, 1, 0, n_constraints)
            full == EncHeader(h)
            buf == SubSeq(full, 1, IF keep < Len(full) THEN keep ELSE Len(full))
            res == read_header(Reader(buf), size).res IN
        /\ keep <= Len(full)
        /\ parse' = [ParseInit EXCEPT
               !.api = "read_header", !.reader = Reader(buf),
               !.section_sizes = MapInsert(EmptyMap, HeaderType, size),
               !.result = res]
        /\ pc' = IF res.kind = "Panic" THEN "panicked" ELSE "returned"
  /\ UNCHANGED <<overflow_checks, drv, fsys, caller, hist>>

NextParser ==
  \/ CallReadHeader
  \/ CallLoadR1cs
  \/ CallLoadR1csBadPrefix
  \/ FromReaderScan
  \/ FromReaderHeader
  \/ FromReaderConstraints
  \/ FromReaderMap
  \/ load_r1cs_from_bin
  \/ CallLoadWitness

NextDriver ==
  \/ CallCreateAll
  \/ CallCreatePrefix
  \/ CallContinue
  \/ CreateWitness0
  \/ CreateNew
  \/ CreateStepWitness
  \/ CreateStepProve
  \/ CreateFinish
  \/ ContinueStepWitness
  \/ ContinueStepProve
  \/ ContinueFinish

Next == NextParser \/ NextDriver

\* the parsers alone, the step driver alone, and the whole library
SpecParser == Init /\ [][NextParser]_vars
SpecDriver == Init /\ [][NextDriver]_vars
Spec == Init /\ [][Next]_vars

\* ------------------------------------------------------------------ claims
\* the runs that have returned to the caller
Done == {hist.done[k] : k \in 1..Len(hist.done)}

\* the public input a generator invocation was handed, as field elements
StepInOf(e) == [k \in 1..Len(e.step_in) |-> from_str_radix(e.step_in[k], 10)]

\* C1: a fresh run over N >= 1 private inputs that returns Ok has seeded the
\* accumulator once, at the initial public input, and has folded exactly one
\* circuit per step, for steps 0..N-1 in that order, each the circuit of that
\* step's witness; the accumulator it hands back has folded those N circuits
\* and verify(N, initial public input) accepts it.
C1_FreshRunFoldsEachStepOnce ==
  \A d \in Done :
    (d.entry = "create" /\ d.kind = "Ok") =>
      /\ d.n >= 1
      /\ d.log.news = 1
      /\ d.snark.z0 = caller.start_public_input
      /\ Len(d.log.folds) = d.n
      /\ \A j \in 1..d.n : d.log.folds[j].step = j - 1
      /\ d.snark.folded = [j \in 1..d.n |-> d.log.folds[j].witness]
      /\ verify(d.snark, d.n, caller.start_public_input)

C1_Witness ==
  \E d \in Done : d.entry = "create" /\ d.kind = "Ok" /\ d.n >= 2

\* the public input the run in progress was asked to start from
RunSeed == IF drv.entry = "create" THEN drv.start_public_input ELSE caller.last_zi

\* the generator invocations of the loop, without the one made before it
LoopGen(log) == SelectSeq(log.gen, LAMBDA e : e.step >= 0)

\* C2: in both entry points the generator invocations of the loop are for
\* steps 0, 1, 2, ... in order; step 0 is handed the seed (the initial public
\* input of a fresh run, last_zi of a continuation) and step i >= 1 is handed
\* exactly the outputs derived from step i-1's circuit, so no step's witness
\* generation starts before the previous step's outputs are derived.
C2_PublicInputChain ==
  LET g == LoopGen(hist.run) IN
  /\ Len(g) <= Len(hist.run.outs) + 1
  /\ \A j \in 1..Len(g) :
       /\ g[j].step = j - 1
       /\ g[j].extra = drv.private_inputs[j]
       /\ StepInOf(g[j]) = IF j = 1 THEN RunSeed ELSE hist.run.outs[j - 1]

C2_Witness ==
  /\ drv.entry = "continue"
  /\ caller.last_zi # caller.start_public_input
  /\ \E j \in 1..Len(hist.run.gen) : hist.run.gen[j].step = 1

\* the driver run in progress has ended: it returned or it panicked
RunEnded == drv.entry # "none" /\ pc \in {"between", "panicked"}

\* C3: on every exit path of a driver entry point, the success return, the
\* error returns and the panics alike, no witness file is left at the
\* generator's output path.
C3_WitnessFileRemovedOnEveryExit ==
  RunEnded => fsys.wtns = NoFile

\* the accumulator the caller held when the run in progress was called
HeldAtCall ==
  IF hist.done = <<>> THEN NoSnark ELSE hist.done[Len(hist.done)].snark

\* a step of the run in progress has failed
StepFailed == drv.entry # "none" /\ pc = "panicked"

\* C4: when a step i fails the run stops there: no generator invocation and
\* no fold is made for a later step, the entry point does not report success,
\* and the accumulator the caller holds, the one it passed in by mutable
\* reference included, has not folded a proper prefix of the requested steps:
\* it is the accumulator the caller held when it called.
C4_FailedStepLeavesNoPartialAccumulator ==
  StepFailed =>
    /\ \A j \in 1..Len(hist.run.gen) : hist.run.gen[j].step <= drv.i
    /\ \A j \in 1..Len(hist.run.folds) : hist.run.folds[j].step < drv.i
    /\ drv.result.kind = "Panic"
    /\ caller.snark = HeldAtCall

\* the caller's three runs have returned, every generator invocation was
\* honest, and the continuation was seeded with the prefix run's last outputs
SplitRunsDone ==
  /\ Len(hist.done) = 3
  /\ hist.done[1].entry = "create" /\ hist.done[1].kind = "Ok"
  /\ hist.done[2].entry = "create" /\ hist.done[2].kind = "Ok"
  /\ hist.done[3].entry = "continue"
  /\ \A k \in 1..3 : hist.done[k].log.honest
  /\ caller.last_zi = hist.done[2].log.outs[caller.split]

\* C5: a fresh run over the first k >= 1 private inputs followed by a
\* continuation over the remaining M >= 0, seeded with the fresh run's last
\* public output, makes the generator invocations and the folds of steps
\* k..k+M-1 of a single fresh run over all k+M inputs and leaves the same
\* accumulator, with k+M folds, whatever start_public_input the continuation
\* is given.
C5_ContinuationEqualsFreshRun ==
  SplitRunsDone =>
    LET all == hist.done[1]
        cont == hist.done[3]
        k == caller.split IN
    /\ all.n = k + cont.n
    /\ Len(cont.log.gen) = cont.n
    /\ \A j \in 1..cont.n :
         /\ cont.log.gen[j].step_in = all.log.gen[1 + k + j].step_in
         /\ cont.log.gen[j].extra = all.log.gen[1 + k + j].extra
    /\ Len(cont.log.folds) = cont.n
    /\ \A j \in 1..cont.n : cont.log.folds[j].witness = all.log.folds[k + j].witness
    /\ cont.log.outs = SubSeq(all.log.outs, k + 1, k + cont.n)
    /\ Len(cont.snark.folded) = k + cont.n
    /\ cont.snark = all.snark

C5_Witness ==
  /\ SplitRunsDone
  /\ hist.done[3].n >= 1
  /\ drv.start_public_input # caller.start_public_input

\* a call of the witness parser has ended
WitnessParseEnded ==
  parse.api = "load_witness_from_array" /\ parse.result # NoResult

\* from_reader has ended, by returning or by panicking
FromReaderEnded ==
  parse.api = "load_r1cs_from_bin" /\ parse.fr_result # NoResult

\* C6: a 32-byte pattern that is not a canonical field element is never
\* delivered as an element and never makes read_field panic: the parse that
\* reads it ends with an error value.
C6_NonCanonicalFieldIsAnError ==
  /\ parse.result.err # ReadFieldPanic
  /\ parse.fr_result.err # ReadFieldPanic
  /\ (WitnessParseEnded /\ parse.result.kind = "Ok") =>
        \A k \in 1..Len(parse.result.val) : parse.result.val[k] \in Fr

\* the section types from_reader needs
RequiredSections == {HeaderType, ConstraintType, Wire2LabelType}

\* C7: from_reader on a container whose section table lacks the header, the
\* constraints or the wire-map section ends with an error value, not a panic.
C7_MissingSectionIsAnError ==
  ( /\ FromReaderEnded
    /\ parse.scanned = parse.num_sections
    /\ ~(RequiredSections \subseteq DOMAIN parse.section_offsets)
    /\ parse.fr_result.err # ReadFieldPanic )
  => parse.fr_result.kind = "Err"

\* the declared field size, witness length and section-2 size of the witness
\* container the parser was handed
DeclaredFieldSize == parse.reader.s[6].v
DeclaredWitnessLen == parse.reader.s[8].v
DeclaredSec2Size == parse.reader.s[10].v

\* C8: the witness parser returns an error for every container whose declared
\* section-2 size is not exactly witness_len * field_size, the product taken
\* without wrapping, and a parse that returns Ok returns exactly witness_len
\* elements.
C8_WitnessSizeCheckIsExact ==
  (WitnessParseEnded /\ parse.result.err # ReadFieldPanic) =>
    /\ DeclaredSec2Size # DeclaredWitnessLen * DeclaredFieldSize
         => parse.result.kind = "Err"
    /\ parse.result.kind = "Ok" => Len(parse.result.val) = DeclaredWitnessLen

\* C9: a circuit definition load_r1cs_from_bin produces has num_variables =
\* n_wires, num_inputs = 1 + n_pub_in + n_pub_out and num_aux = num_variables
\* - num_inputs as exact, non-negative integers, never wrapped ones.
C9_CircuitCountsAreExact ==
  (parse.api = "load_r1cs_from_bin" /\ parse.result.kind = "Ok") =>
    LET h == parse.fr_result.val.header
        r1cs == parse.result.val IN
    /\ r1cs.num_variables = h.n_wires
    /\ r1cs.num_inputs = 1 + h.n_pub_in + h.n_pub_out
    /\ r1cs.num_aux = h.n_wires - (1 + h.n_pub_in + h.n_pub_out)
    /\ r1cs.num_aux >= 0

\* C10: a wire map from_reader returns has exactly n_wires labels, the first
\* of them 0; a container whose wire-map section does not give such a map (a
\* wrong size, a first label other than 0, no wires at all) makes the parser
\* return an error value, not panic.
C10_WireMapIsCheckedWithoutPanic ==
  /\ (FromReaderEnded /\ parse.fr_result.kind = "Ok") =>
       LET f == parse.fr_result.val IN
       /\ Len(f.wire_mapping) = f.header.n_wires
       /\ f.header.n_wires > 0
       /\ f.wire_mapping[1] = 0
  /\ ( /\ FromReaderEnded
       /\ parse.at = "map"
       /\ Wire2LabelType \in DOMAIN parse.section_offsets
       /\ parse.fr_result.kind # "Ok" )
     => parse.fr_result.kind = "Err"

\* read_header has returned; the buffer it was handed holds a field_size
ReadHeaderEnded ==
  /\ parse.api = "read_header" /\ parse.result # NoResult
  /\ Len(parse.reader.s) >= 1

HeaderDeclaredSize == parse.section_sizes[HeaderType]
HeaderFieldSize == parse.reader.s[1].v

\* the buffer holds the prime modulus bytes that follow field_size
PrimePresent == HeaderFieldSize = 0 \/ Len(parse.reader.s) >= 2

\* C11 as stated: for every header section whose declared size differs from
\* 32 + field_size, read_header returns the InvalidData error and no Header.
C11_WrongHeaderSizeIsInvalidData ==
  (ReadHeaderEnded /\ HeaderDeclaredSize # HeaderFixedSize + HeaderFieldSize) =>
    /\ parse.result.kind = "Err"
    /\ parse.result.err = InvalidHeaderSize

\* C11, amended: for every header section whose declared size differs from
\* 32 + field_size, read_header returns an error and no Header, whatever the
\* field_size and whatever follows the prime modulus; the error is the
\* InvalidData one whenever the prime modulus bytes are there to be read
\* (a section that ends before them fails with the read's end-of-input
\* error instead).  A Header is only returned for the exact declared size.
C11_WrongHeaderSizeIsAnError ==
  ReadHeaderEnded =>
    /\ HeaderDeclaredSize # HeaderFixedSize + HeaderFieldSize =>
         /\ parse.result.kind = "Err"
         /\ PrimePresent => parse.result.err = InvalidHeaderSize
         /\ ~PrimePresent => parse.result.err = "eof"
    /\ parse.result.kind = "Ok" =>
         /\ HeaderDeclaredSize = HeaderFixedSize + HeaderFieldSize
         /\ parse.result.val.field_size = HeaderFieldSize

C11_Witness ==
  /\ ReadHeaderEnded
  /\ HeaderDeclaredSize # HeaderFixedSize + HeaderFieldSize
  /\ HeaderFieldSize = 2 * FieldSize
  /\ Len(parse.reader.s) = 2
  /\ parse.result.err = InvalidHeaderSize

\* the container handed to from_reader is well formed: the three sections,
\* each once, in some order, their bodies agreeing with the header
WellFormedContainer ==
  LET g == parse.given IN
  /\ g.magic = R1csMagic /\ g.version = R1csVersion
  /\ Len(g.order) = 3
  /\ RequiredSections = {g.order[k] : k \in 1..3}
  /\ g.num_sections = 3
  /\ WellFormedBody(g.h, g.hpad, g.cs, g.ls)

\* C12: from_reader reads no section body before the forward scan of the
\* section table is complete, and for a well-formed container, whatever the
\* order of its three sections, it returns the header integers as encoded,
\* the n_constraints constraint triples in file order, each linear
\* combination with exactly its declared pairs (possibly none), and the
\* n_wires labels in file order.
C12_WellFormedContainerParses ==
  /\ (parse.api = "load_r1cs_from_bin"
        /\ parse.at \in {"header", "constraints", "map"})
       => parse.scanned = parse.num_sections
  /\ (FromReaderEnded /\ WellFormedContainer) =>
       LET g == parse.given
           f == parse.fr_result.val IN
       /\ parse.fr_result.kind = "Ok"
       /\ f.header.n_wires = g.h.n_wires
       /\ f.header.n_pub_out = g.h.n_pub_out
       /\ f.header.n_pub_in = g.h.n_pub_in
       /\ f.header.n_prv_in = g.h.n_prv_in
       /\ f.header.n_labels = g.h.n_labels
       /\ f.header.n_constraints = g.h.n_constraints
       /\ Len(f.constraints) = g.h.n_constraints
       /\ f.constraints = g.cs
       /\ Len(f.wire_mapping) = g.h.n_wires
       /\ f.wire_mapping = g.ls

C12_Witness ==
  /\ FromReaderEnded /\ WellFormedContainer
  /\ parse.given.order = <<3, 2, 1>>
  /\ parse.given.cs = <<Constraint1, Constraint2>>
  /\ Len(parse.given.ls) = 2
  /\ parse.fr_result.kind = "Ok"

\* the interchange document of a logged generator invocation
DocOf(e) == [step_in |-> e.step_in, extra |-> e.extra]

\* C13: the witness of every circuit the run folds is the one the generator
\* wrote in that step's own invocation; an invocation that exits without
\* writing the output file is the run's last, and the run has failed: no
\* circuit is built from a file an earlier invocation left at the path.
C13_WitnessIsFreshEachStep ==
  LET g == hist.run.gen IN
  /\ \A j \in 1..Len(g) :
       ~g[j].wrote => (j = Len(g) /\ pc = "panicked")
  /\ \A f \in 1..Len(hist.run.folds) :
       \E j \in 1..Len(g) :
         /\ g[j].step = hist.run.folds[f].step
         /\ g[j].wrote
         /\ hist.run.folds[f].witness = HonestWitness(DocOf(g[j]))

\* C14: a run over N private inputs that returns Ok, fresh or continuation,
\* has invoked the generator exactly N times, once for each step index
\* 0..N-1 in order, and has folded exactly one circuit per invocation, the
\* one built from that invocation's step.
C14_OneGeneratorCallPerStep ==
  \A d \in Done :
    d.kind = "Ok" =>
      /\ Len(d.log.gen) = d.n
      /\ \A j \in 1..Len(d.log.gen) : d.log.gen[j].step = j - 1
      /\ Len(d.log.folds) = d.n
      /\ \A j \in 1..Len(d.log.folds) : d.log.folds[j].step = j - 1

\* every read of the model's containers falls on a token boundary
NoUnalignedRead ==
  /\ parse.fr_result.err # "unaligned"
  /\ parse.result.err # "unaligned"

====
